---- MODULE Spec2Model ----
(***************************************************************************)
(* Model of the staging loader (main_stg.py, STGLoader) and of the Data     *)
(* Vault loader (main_dds.py, DDSLoader): the synchronous pipeline of each  *)
(* process, the with_connection wrapper, and the four concurrent           *)
(* upload_dds_table tasks that asyncio.run drives on one event loop.        *)
(***************************************************************************)
EXTENDS Integers, Sequences, FiniteSets, TLC

(***************************************************************************)
(* Bounds of the model.                                                     *)
(***************************************************************************)
\* rows of the source response in the full system
MaxRows == 1
\* rows of the staging snapshot when only the projection pipeline is explored
MaxProjRows == 2
\* largest user identifier of a source record
MaxUserId == 2

\* store or network failures that hit the table loads of one run
MaxLoadFaults == 1
\* where a later batch is loaded over the tables the first one left: the
\* tables, counted from h_users on, whose load of the first batch may not
\* have committed
MaxMissedLoads == 1

UserIds == 1..MaxUserId
ItemIds == {10, 11}
Titles == {"A", "B"}
Bodies == {"x"}

(***************************************************************************)
(* Text helpers: str(), hashlib.md5(...).hexdigest(), DataFrame.to_csv and  *)
(* the decoding the store does of a COPY ... FORMAT CSV stream.             *)
(***************************************************************************)
RECURSIVE Str(_)
\* str(x) of a non-negative integer: its decimal digits
Str(n) ==
    IF n < 10 THEN SubSeq("0123456789", n + 1, n + 1)
    ELSE Str(n \div 10) \o SubSeq("0123456789", (n % 10) + 1, (n % 10) + 1)

\* hashlib.md5(s.encode()).hexdigest() on the keys the model can build
Md5Hex(s) ==
    CASE s = "1" -> "c4ca4238a0b923820dcc509a6f75849b"
      [] s = "2" -> "c81e728d9d4c2f636f067f89cc14862c"
      [] s = "3" -> "eccbc87e4b5ce2fe28308fd9f2a7baf3"
      [] s = "4" -> "a87ff679a2f3e71d9181a67b7542122c"
      [] s = "10" -> "d3d9446802a44259755d38e6d163e820"
      [] s = "11" -> "6512bd43d9caa6e02c990b0a82652dca"
      [] s = "12" -> "c20ad4d76fe97759aa27a0c99bff6710"
      [] s = "13" -> "c51ce410c124a10e0db5e4b97fc2af39"

\* the lambda of add_hashes_to_raw_data
HashKey(x) == Md5Hex(Str(x))

\* the columns pandas holds with an integer dtype
IntCols == {"userId", "user_id", "id", "letter_id"}

\* how to_csv renders one cell: integers by their digits, text as it is
\* (the model's texts hold no delimiter, quote or line break)
CellText(col, v) == IF col \in IntCols THEN Str(v) ELSE v

RECURSIVE JoinCells(_, _, _)
JoinCells(row, cols, i) ==
    IF i > Len(cols) THEN ""
    ELSE CellText(cols[i], row[cols[i]]) \o (IF i < Len(cols) THEN "," ELSE "")
         \o JoinCells(row, cols, i + 1)

RECURSIVE CsvFrom(_, _)
\* df.to_csv(buffer, index=False, header=False): one line per row
CsvFrom(df, i) ==
    IF i > Len(df.rows) THEN ""
    ELSE JoinCells(df.rows[i], df.cols, 1) \o "\n" \o CsvFrom(df, i + 1)

ToCsv(df) == CsvFrom(df, 1)

\* StringIO.read(size): the next size characters, all of them when fewer are
\* left or when size is negative, none when size is 0
BufferRead(buffer, size) ==
    IF size < 0 \/ size >= Len(buffer) THEN buffer ELSE SubSeq(buffer, 1, size)

RECURSIVE ReadChunks(_, _)
\* the loop "while data := buffer.read(block_size): copy.write(data)": the
\* sequence of chunks written for a buffer; an empty read ends the loop
ReadChunks(buffer, block_size) ==
    LET chunk == BufferRead(buffer, block_size)
    IN  IF chunk = "" THEN <<>>
        ELSE <<chunk>> \o ReadChunks(SubSeq(buffer, Len(chunk) + 1, Len(buffer)), block_size)

RECURSIVE Concat(_)
Concat(chunks) ==
    IF chunks = <<>> THEN "" ELSE Head(chunks) \o Concat(Tail(chunks))

\* the fields of text s separated by the character sep
Split(s, sep) ==
    LET at == {i \in 1..Len(s) : SubSeq(s, i, i) = sep}
        n == Cardinality(at)
        \* the k-th separator, the start and the end of s standing for two more
        pos(k) == IF k = 0 THEN 0
                  ELSE IF k = n + 1 THEN Len(s) + 1
                  ELSE CHOOSE q \in at : Cardinality({r \in at : r < q}) = k - 1
    IN  [k \in 1..(n + 1) |-> SubSeq(s, pos(k - 1) + 1, pos(k) - 1)]

\* the rows the store decodes from a CSV stream: each line, cut into fields
CsvRows(stream) ==
    LET lines == Split(stream, "\n")
        n == Len(lines) - 1
    IN  [i \in 1..n |-> Split(lines[i], ",")]

RECURSIVE ParseInt(_)
ParseInt(s) ==
    LET d == CHOOSE k \in 0..9 : SubSeq("0123456789", k + 1, k + 1) = SubSeq(s, Len(s), Len(s))
    IN  IF Len(s) = 1 THEN d ELSE 10 * ParseInt(SubSeq(s, 1, Len(s) - 1)) + d

(***************************************************************************)
(* DataFrames: the ordered column names and the rows, each row a function   *)
(* from column name to cell.                                                *)
(***************************************************************************)
\* key order of the dicts of the source response (requests' response.json())
SourceCols == <<"userId", "id", "title", "body">>
\* column order of "SELECT user_id, id, title, body FROM stg.raw_test_data"
StgCols == <<"user_id", "id", "title", "body">>

\* config.TARGET_DDS_TABLE_*: the four target tables, in the order of the tasks
TableNames == <<"h_users", "h_letters", "s_letters", "l_posts">>
Tasks == 1..4

Range(f) == {f[i] : i \in DOMAIN f}
HasCol(df, c) == c \in Range(df.cols)

\* pd.DataFrame.from_dict(data): the columns are the keys of the dicts, so a
\* list with no dict gives a frame with no column at all
FromDict(data, keys) ==
    IF data = <<>> THEN [cols |-> <<>>, rows |-> <<>>]
    ELSE [cols |-> keys, rows |-> data]

\* df.rename(columns={old: new}); a name that is no column is left alone
Rename(df, old, new) ==
    LET nm(c) == IF c = old THEN new ELSE c
        on(c) == IF c = new /\ HasCol(df, old) THEN old ELSE c
    IN  [cols |-> [i \in DOMAIN df.cols |-> nm(df.cols[i])],
         rows |-> [i \in DOMAIN df.rows |->
                     [c \in {nm(k) : k \in Range(df.cols)} |-> df.rows[i][on(c)]]]]

\* df[[c1, c2, ...]]
SelectCols(df, cols) ==
    [cols |-> cols,
     rows |-> [i \in DOMAIN df.rows |-> [c \in Range(cols) |-> df.rows[i][c]]]]

RECURSIVE KeepFirst(_, _)
KeepFirst(rows, seen) ==
    IF rows = <<>> THEN <<>>
    ELSE IF Head(rows) \in seen THEN KeepFirst(Tail(rows), seen)
    ELSE <<Head(rows)>> \o KeepFirst(Tail(rows), seen \cup {Head(rows)})

\* mutant: the users hub is not deduplicated
DropDuplicates_Keep(df) == df

\* df.drop_duplicates(): of equal rows only the first is kept
DropDuplicates(df) == [cols |-> df.cols, rows |-> KeepFirst(df.rows, {})]

\* STGLoader.transform_data_to_df
StgTransform(data) == Rename(FromDict(data, SourceCols), "userId", "user_id")

\* DDSLoader.transform_data_to_df
DdsTransform(data) == FromDict(data, StgCols)

\* DDSLoader.add_hashes_to_raw_data raises KeyError when a key column is missing
HashesRaise(df) == ~HasCol(df, "user_id") \/ ~HasCol(df, "id")

\* mutant: the user key's hash is derived from the item id
AddHashes_WrongKey(df) ==
    [cols |-> df.cols \o <<"user_id_hash", "letter_id_hash">>,
     rows |-> [i \in DOMAIN df.rows |->
                 [c \in Range(df.cols) \cup {"user_id_hash", "letter_id_hash"} |->
                     IF c = "user_id_hash" THEN HashKey(df.rows[i]["id"])
                     ELSE IF c = "letter_id_hash" THEN HashKey(df.rows[i]["id"])
                     ELSE df.rows[i][c]]]]

\* DDSLoader.add_hashes_to_raw_data
AddHashes(df) ==
    [cols |-> df.cols \o <<"user_id_hash", "letter_id_hash">>,
     rows |-> [i \in DOMAIN df.rows |->
                 [c \in Range(df.cols) \cup {"user_id_hash", "letter_id_hash"} |->
                     IF c = "user_id_hash" THEN HashKey(df.rows[i]["user_id"])
                     ELSE IF c = "letter_id_hash" THEN HashKey(df.rows[i]["id"])
                     ELSE df.rows[i][c]]]]

UsersHub(df) == DropDuplicates(SelectCols(df, <<"user_id", "user_id_hash">>))

\* mutant: the letters hub is deduplicated like the users hub
LettersHub_Distinct(df) ==
    DropDuplicates(Rename(SelectCols(df, <<"id", "letter_id_hash">>), "id", "letter_id"))

LettersHub(df) == Rename(SelectCols(df, <<"id", "letter_id_hash">>), "id", "letter_id")
LettersSatellite(df) == SelectCols(df, <<"letter_id_hash", "title", "body">>)
PostsLink(df) == SelectCols(df, <<"user_id_hash", "letter_id_hash">>)

\* DDSLoader.split_df_to_tables: the four projections, in the order of the tasks
SplitDfToTables(df) ==
    <<UsersHub(df), LettersHub(df), LettersSatellite(df), PostsLink(df)>>

EmptyDf == [cols |-> <<>>, rows |-> <<>>]
NoProj == [t \in Tasks |-> EmptyDf]

\* block_size of copy_df and of upload_dds_table, which no caller overrides
DefaultBlockSize == 65536

\* the dict rows "cursor.fetchall()" gives with row_factory=dict_row
FetchAll(table) ==
    [i \in DOMAIN table |->
        [c \in Range(StgCols) |->
            IF c = "user_id" THEN ParseInt(table[i][1])
            ELSE IF c = "id" THEN ParseInt(table[i][2])
            ELSE IF c = "title" THEN table[i][3] ELSE table[i][4]]]

(***************************************************************************)
(* The store: its uniqueness constraints, which the repository's DDL (not   *)
(* among the sources) declares.  A row is the sequence of its fields' text. *)
(***************************************************************************)
UniqueKey(name, row) ==
    CASE name = "raw_test_data" -> <<row[2]>>
      [] name = "h_users" -> <<row[2]>>
      [] name = "h_letters" -> <<row[2]>>
      [] name = "s_letters" -> <<row[1]>>
      [] name = "l_posts" -> row

\* a COPY of the rows new into a table holding the rows old raises UniqueViolation
UniqueViolated(name, old, new) ==
    \E i \in DOMAIN new :
        \/ \E j \in DOMAIN old : UniqueKey(name, old[j]) = UniqueKey(name, new[i])
        \/ \E j \in DOMAIN new : j # i /\ UniqueKey(name, new[j]) = UniqueKey(name, new[i])

(***************************************************************************)
(* State.                                                                   *)
(***************************************************************************)
VARIABLES
    source,      \* the records the source URL answers with
    stgTable,    \* committed rows of stg.raw_test_data
    tables,      \* committed rows of the four target tables, by task
    tablesAtStart, \* the target tables as they were when the process started
    proc,        \* the process last started: "none", "stg" or "dds"
    pc,          \* the statement of the main script that runs next
    exitStatus,  \* exit status of the process, -1 while it runs
    raisedAt,    \* the statement whose exception ended the process
    data,        \* the list of dicts the process holds
    df,          \* the DataFrame the process holds
    proj,        \* the four projections of split_df_to_tables
    wpc,         \* with_connection_: where the wrapper is
    wconn,       \* with_connection_: the calls made on conn, in order
    wexc,        \* with_connection_: which call raised the exception in flight
                 \* ("call_unique": f raised a UniqueViolation)
    wcaught,     \* the exception upload_df_to_db caught inside itself
    wpending,    \* rows written in the wrapper's open transaction
    upload,      \* upload_dds_data: "none", "awaiting", "returned", "raised"
    awaitIdx,    \* upload_dds_data: the task its await waits for
    tstate,      \* per task: where upload_dds_table is
    terr,        \* per task: the exception the load raised in the try block
    aconn,       \* per task: the calls made on aconn, in order
    tchunks,     \* per task: the chunks buffer.read has still to give
    tsent,       \* per task: the text written to the copy stream so far
    faults,      \* failures that hit the table loads of this run so far
    blockSize,   \* the block_size the loads of the process are called with
    logs         \* the records the loggers emitted at a level above DEBUG

procVars == <<proc, pc, exitStatus, raisedAt, data, df, proj>>
wrapVars == <<wpc, wconn, wexc, wcaught, wpending>>
taskVars == <<upload, awaitIdx, tstate, terr, aconn, tchunks, tsent, faults, blockSize>>
storeVars == <<source, stgTable, tables, tablesAtStart>>
vars == <<storeVars, procVars, wrapVars, taskVars, logs>>

SourceRecords == {[userId |-> 1, id |-> 10, title |-> "A", body |-> "x"]}

RECURSIVE SeqsUpTo(_, _)
SeqsUpTo(S, n) ==
    IF n = 0 THEN {<<>>}
    ELSE SeqsUpTo(S, n - 1) \cup
         {Append(q, x) : q \in {r \in SeqsUpTo(S, n - 1) : Len(r) = n - 1}, x \in S}

StgRows ==
    {<<Str(u), Str(i), t, b>> : u \in UserIds, i \in ItemIds, t \in Titles, b \in Bodies}

LocalsInit ==
    /\ exitStatus = -1
    /\ raisedAt = "none"
    /\ data = <<>>
    /\ df = EmptyDf
    /\ proj = NoProj
    /\ wconn = <<>>
    /\ wexc = "none"
    /\ wcaught = "none"
    /\ wpending = <<>>
    /\ upload = "none"
    /\ awaitIdx = 1
    /\ tstate = [t \in Tasks |-> "none"]
    /\ terr = [t \in Tasks |-> "none"]
    /\ aconn = [t \in Tasks |-> <<>>]
    /\ tchunks = [t \in Tasks |-> <<>>]
    /\ tsent = [t \in Tasks |-> ""]
    /\ faults = 0
    /\ blockSize = DefaultBlockSize
    /\ logs = {}

Init ==
    /\ source \in SeqsUpTo(SourceRecords, MaxRows)
    /\ stgTable = <<>>
    /\ tables = [t \in Tasks |-> <<>>]
    /\ tablesAtStart = [t \in Tasks |-> <<>>]
    /\ proc = "none"
    /\ pc = "idle"
    /\ wpc = "idle"
    /\ LocalsInit

\* the staging table as earlier staging loads may have left it, main_dds.py
\* about to be started
InitProj ==
    /\ source = <<>>
    /\ stgTable \in SeqsUpTo(StgRows, MaxProjRows)
    /\ tables = [t \in Tasks |-> <<>>]
    /\ tablesAtStart = [t \in Tasks |-> <<>>]
    /\ proc = "none"
    /\ pc = "idle"
    /\ wpc = "idle"
    /\ LocalsInit

\* a record the source answers with after the first batch was staged
LaterRecords == {[userId |-> 2, id |-> 11, title |-> "B", body |-> "x"]}

\* the rows a staging load of the records commits
StagedRows(records) == CsvRows(ToCsv(StgTransform(records)))

\* the rows the four loads of a run over the staging rows staged commit
LoadedRows(staged) ==
    LET projs == SplitDfToTables(AddHashes(DdsTransform(FetchAll(staged))))
    IN  [t \in Tasks |-> CsvRows(ToCsv(projs[t]))]

\* the store once a first batch was staged and loaded, each table load having
\* committed or not, and a later batch of other records was staged after it;
\* main_dds.py is about to be started again
InitGrow ==
    /\ source \in {<<r>> : r \in LaterRecords}
    /\ \E first \in SourceRecords :
          /\ stgTable = StagedRows(<<first>>) \o StagedRows(source)
          /\ tables \in [Tasks -> {<<>>} \cup Range(LoadedRows(StagedRows(<<first>>)))]
          /\ \A t \in Tasks : tables[t] \in {<<>>, LoadedRows(StagedRows(<<first>>))[t]}
          /\ \A t \in Tasks : tables[t] = <<>> => t <= MaxMissedLoads
    /\ tablesAtStart = tables
    /\ proc = "none"
    /\ pc = "idle"
    /\ wpc = "idle"
    /\ LocalsInit

\* a new process starts with fresh locals
LocalsReset ==
    /\ exitStatus' = -1
    /\ raisedAt' = "none"
    /\ data' = <<>>
    /\ df' = EmptyDf
    /\ proj' = NoProj
    /\ wconn' = <<>>
    /\ wexc' = "none"
    /\ wcaught' = "none"
    /\ wpending' = <<>>
    /\ upload' = "none"
    /\ awaitIdx' = 1
    /\ tstate' = [t \in Tasks |-> "none"]
    /\ terr' = [t \in Tasks |-> "none"]
    /\ aconn' = [t \in Tasks |-> <<>>]
    /\ tchunks' = [t \in Tasks |-> <<>>]
    /\ tsent' = [t \in Tasks |-> ""]
    /\ faults' = 0
    /\ logs' = {}

\* mutant: main_dds.py starts the upload without calling split_df_to_tables
NextStatement_NoSplit(at) ==
    CASE at = "download_data" -> "stg_transform"
      [] at = "stg_transform" -> "upload_df_to_db"
      [] at = "upload_df_to_db" -> "exit"
      [] at = "download_stg_data" -> "transform"
      [] at = "transform" -> "add_hashes"
      [] at = "add_hashes" -> "upload"
      [] at = "split" -> "upload"
      [] at = "upload" -> "exit"

\* the statement that follows the statement at in its script
NextStatement(at) ==
    CASE at = "download_data" -> "stg_transform"
      [] at = "stg_transform" -> "upload_df_to_db"
      [] at = "upload_df_to_db" -> "exit"
      [] at = "download_stg_data" -> "transform"
      [] at = "transform" -> "add_hashes"
      [] at = "add_hashes" -> "split"
      [] at = "split" -> "upload"
      [] at = "upload" -> "exit"

\* mutant: the script logs the exception and goes on
Propagate_Swallow(raised, next) == next

\* no statement of the scripts is inside a try: an exception ends the script
Propagate(raised, next) == IF raised THEN "exit" ELSE next

\* the statement at raises: the process ends with status 1
Raise(at) ==
    /\ raisedAt' = at
    /\ pc' = Propagate(TRUE, NextStatement(at))
    /\ exitStatus' = IF Propagate(TRUE, NextStatement(at)) = "exit" THEN 1 ELSE exitStatus

\* the statement at returns: the next one runs, and a script that runs to
\* its end leaves status 0
Continue(at) ==
    /\ pc' = Propagate(FALSE, NextStatement(at))
    /\ exitStatus' = IF Propagate(FALSE, NextStatement(at)) = "exit" THEN 0 ELSE exitStatus
    /\ UNCHANGED raisedAt

(***************************************************************************)
(* with_connection: connect, call f, commit or rollback, close.             *)
(***************************************************************************)
\* mutant: the wrapper commits whatever the call did
AfterCall_AlwaysCommit(raised) == "commit"

\* lines 9-15: the except branch rolls back, the else branch commits
AfterCall(raised) == IF raised THEN "rollback" ELSE "commit"

\* mutant: the wrapper has no finally branch
WFinally_NoClose(log) == log

\* lines 16-17: the finally branch closes
WFinally(log) == Append(log, "close")

IsOpen(log) == log # <<>> /\ log[Len(log)] # "close"

\* conn = psycopg.connect(CONN_STR), outside the try
WConnect ==
    /\ wpc = "connect"
    /\ \/ /\ wconn' = <<"connect">>
          /\ wpc' = "call"
          /\ UNCHANGED <<pc, exitStatus, raisedAt>>
       \/ /\ wpc' = "idle"
          /\ Raise(pc)
          /\ UNCHANGED wconn
    /\ UNCHANGED <<storeVars, proc, data, df, proj,
                   wexc, wcaught, wpending, taskVars,
                   logs>>

\* rv = f(conn=conn) for DDSLoader.download_stg_data
WCallDownload ==
    /\ wpc = "call"
    /\ proc = "dds"
    /\ \/ /\ data' = FetchAll(stgTable)
          /\ wpc' = AfterCall(FALSE)
          /\ UNCHANGED wexc
       \/ /\ wexc' = "call"
          /\ wpc' = AfterCall(TRUE)
          /\ UNCHANGED data
    /\ UNCHANGED <<storeVars, proc, pc, exitStatus, raisedAt, df,
                   proj, wconn, wcaught, wpending, taskVars,
                   logs>>

\* mutant: upload_df_to_db calls copy_df outside any try
StgCatches_Nothing(exc) == FALSE

\* upload_df_to_db, line 99: only UniqueViolation is caught
StgCatches(exc) == exc = "unique"

\* what COPY answers for the stream sent into the staging table: a frame
\* without columns gives an empty column list, which the store rejects
StgCopyOutcomes(frame, stream) ==
    IF frame.cols = <<>> THEN {"fatal"}
    ELSE IF UniqueViolated("raw_test_data", stgTable, CsvRows(stream)) THEN {"unique", "fatal"}
    ELSE {"none", "fatal"}

\* logger.error(...) in the except clauses of upload_df_to_db and upload_dds_table
CaughtLevel == "ERROR"

\* the log after the except clause that caught exc in the load of table name
Logged(name, exc) ==
    IF exc = "unique" THEN logs \cup {[table |-> name, level |-> CaughtLevel]} ELSE logs

\* rv = f(conn=conn) for STGLoader.upload_df_to_db (copy_df inside try/except)
WCallUpload ==
    /\ wpc = "call"
    /\ proc = "stg"
    /\ LET stream == Concat(ReadChunks(ToCsv(df), blockSize))
       IN  \E exc \in StgCopyOutcomes(df, stream) :
             /\ wpending' = IF exc = "none" THEN CsvRows(stream) ELSE <<>>
             /\ IF exc # "none" /\ ~StgCatches(exc)
                THEN /\ wexc' = IF exc = "unique" THEN "call_unique" ELSE "call"
                     /\ wpc' = AfterCall(TRUE)
                     /\ UNCHANGED <<wcaught, logs>>
                ELSE /\ wcaught' = exc
                     /\ wpc' = AfterCall(FALSE)
                     /\ logs' = Logged("raw_test_data", exc)
                     /\ UNCHANGED wexc
    /\ UNCHANGED <<storeVars, procVars, wconn, taskVars>>

\* conn.rollback() in the except branch; it may itself raise
WRollback ==
    /\ wpc = "rollback"
    /\ wconn' = Append(wconn, "rollback")
    /\ wpending' = <<>>
    /\ wexc' \in {wexc, "rollback"}
    /\ wpc' = "close"
    /\ UNCHANGED <<storeVars, procVars, wcaught, taskVars,
                   logs>>

\* conn.commit() in the else branch; it may raise
WCommit ==
    /\ wpc = "commit"
    /\ wconn' = Append(wconn, "commit")
    /\ wpending' = <<>>
    /\ \/ /\ stgTable' = stgTable \o wpending
          /\ UNCHANGED wexc
       \/ /\ wexc' = "commit"
          /\ UNCHANGED stgTable
    /\ wpc' = "close"
    /\ UNCHANGED <<source, tables, tablesAtStart, procVars, wcaught, taskVars,
                   logs>>

\* conn.close() in the finally branch, then the raise or "return rv"
WClose ==
    /\ wpc = "close"
    /\ wconn' = WFinally(wconn)
    /\ wpc' = "idle"
    /\ IF wexc # "none" THEN Raise(pc) ELSE Continue(pc)
    /\ UNCHANGED <<storeVars, proc, data, df, proj,
                   wexc, wcaught, wpending, taskVars,
                   logs>>

(***************************************************************************)
(* main_stg.py                                                              *)
(***************************************************************************)
Stopped == pc \in {"idle", "exit"}

\* main_stg.py starts; copy_df will be called with block_size b
StartStgWith(b) ==
    /\ Stopped
    /\ proc' = "stg"
    /\ pc' = "download_data"
    /\ wpc' = "idle"
    /\ LocalsReset
    /\ blockSize' = b
    /\ tablesAtStart' = tables
    /\ UNCHANGED <<source, stgTable, tables>>

\* upload_df_to_db passes no block_size: copy_df runs with its default
StartStg == StartStgWith(DefaultBlockSize)

\* STGLoader.download_data: the response's json, or the error of requests.get
\* and raise_for_status
StgDownloadData ==
    /\ proc = "stg"
    /\ pc = "download_data"
    /\ \/ /\ data' = source
          /\ Continue(pc)
       \/ /\ Raise(pc)
          /\ UNCHANGED data
    /\ UNCHANGED <<storeVars, proc, df, proj, wrapVars, taskVars,
                   logs>>

\* STGLoader.transform_data_to_df, then the call of upload_df_to_db
StgTransformStep ==
    /\ proc = "stg"
    /\ pc = "stg_transform"
    /\ df' = StgTransform(data)
    /\ Continue(pc)
    /\ wpc' = "connect"
    /\ UNCHANGED <<storeVars, proc, data,
                   proj, wconn, wexc, wcaught, wpending, taskVars,
                   logs>>

(***************************************************************************)
(* main_dds.py up to the call of upload_dds_data                            *)
(***************************************************************************)
\* main_dds.py starts; upload_dds_table will be called with block_size b
StartDdsWith(b) ==
    /\ Stopped
    /\ proc' = "dds"
    /\ pc' = "download_stg_data"
    /\ wpc' = "connect"
    /\ LocalsReset
    /\ blockSize' = b
    /\ tablesAtStart' = tables
    /\ UNCHANGED <<source, stgTable, tables>>

\* upload_dds_data passes no block_size: upload_dds_table runs with its default
StartDds == StartDdsWith(DefaultBlockSize)

\* df = dss_loader.transform_data_to_df(data)
DdsTransformStep ==
    /\ proc = "dds"
    /\ pc = "transform"
    /\ df' = DdsTransform(data)
    /\ Continue(pc)
    /\ UNCHANGED <<storeVars, proc, data,
                   proj, wrapVars, taskVars,
                   logs>>

\* df = dss_loader.add_hashes_to_raw_data(df)
DdsAddHashes ==
    /\ proc = "dds"
    /\ pc = "add_hashes"
    /\ IF HashesRaise(df)
       THEN Raise(pc) /\ UNCHANGED df
       ELSE df' = AddHashes(df) /\ Continue(pc)
    /\ UNCHANGED <<storeVars, proc, data, proj, wrapVars, taskVars,
                   logs>>

\* ... = dss_loader.split_df_to_tables(df)
DdsSplit ==
    /\ proc = "dds"
    /\ pc = "split"
    /\ proj' = SplitDfToTables(df)
    /\ Continue(pc)
    /\ UNCHANGED <<storeVars, proc, data,
                   df, wrapVars, taskVars,
                   logs>>

(***************************************************************************)
(* asyncio.run(upload_dds_data(...)): the four upload_dds_table tasks, the  *)
(* awaits of upload_dds_data, and the shutdown of the loop.                 *)
(***************************************************************************)
Terminal == {"returned", "raised", "cancelled"}
InFlight == {"connect", "copy_enter", "write", "copy_exit", "commit", "rollback",
             "rollback_cancel"}

AllStarted == \A t \in Tasks : tstate[t] # "created"

\* mutant: the except clause of upload_dds_table catches nothing
DdsCatches_Nothing(exc) == FALSE

\* upload_dds_table, line 182: only UniqueViolation is caught
DdsCatches(exc) == exc = "unique"

\* how upload_dds_table ends once the exception exc left the "async with" blocks
TaskEnd(exc) == IF exc = "none" \/ DdsCatches(exc) THEN "returned" ELSE "raised"

\* the exceptions that are failures of the load: one raised inside the
\* "async with aconn" block or by connect, or one raised by the commit
Fatal == {"fatal", "commit"}

\* mutant: the tasks' exceptions are collected and dropped instead of raised
AwaitResult_Dropped(st) == "continue"

\* "await task": the exception of a task that raised is raised again in
\* upload_dds_data, the result of one that returned is dropped
AwaitResult(st) == IF st = "raised" THEN "raise" ELSE "continue"

RECURSIVE AwaitFrom(_, _)
\* lines 224-227: the awaits from the i-th on, as far as they go without
\* suspending: an await of a task that is done does not yield to the loop
AwaitFrom(st, i) ==
    IF i > 4 THEN [upload |-> "returned", idx |-> 4]
    ELSE IF st[i] \notin Terminal THEN [upload |-> "awaiting", idx |-> i]
    ELSE IF AwaitResult(st[i]) = "raise" THEN [upload |-> "raised", idx |-> i]
    ELSE AwaitFrom(st, i + 1)

\* asyncio.run starts upload_dds_data, which creates its four tasks and
\* suspends in the first await
DdsRun ==
    /\ proc = "dds"
    /\ pc = "upload"
    /\ pc' = "loop"
    /\ upload' = "awaiting"
    /\ awaitIdx' = 1
    /\ tstate' = [t \in Tasks |-> "created"]
    /\ UNCHANGED <<storeVars, proc, exitStatus, raisedAt, data, df,
                   proj, wrapVars, terr, aconn, tchunks, tsent, faults,
                   blockSize, logs>>

\* the loop runs the tasks in the order of their creation; each runs up to
\* the await of AsyncConnection.connect
TaskStart(t) ==
    /\ pc = "loop"
    /\ tstate[t] = "created"
    /\ \A u \in Tasks : u < t => tstate[u] # "created"
    /\ tstate' = [tstate EXCEPT ![t] = "connect"]
    /\ UNCHANGED <<storeVars, procVars, wrapVars, upload, awaitIdx, terr, aconn,
                   tchunks, tsent, faults,
                   blockSize, logs>>

Runs(t, at) == pc \in {"loop", "shutdown"} /\ AllStarted /\ tstate[t] = at

\* the failure exc hits the load now: a failure the store or the network
\* brings about counts against the bound, an answer the data decide does not
Hits(exc, decided) ==
    IF exc \in {"fatal", "commit"} /\ ~decided
    THEN faults < MaxLoadFaults /\ faults' = faults + 1
    ELSE faults' = faults

\* aconn = await connect(CONN_STR); then the buffer is filled by to_csv and
\* the task suspends entering cur.copy(...)
TaskConnect(t) ==
    /\ Runs(t, "connect")
    /\ \E exc \in {"none", "fatal"} :
          /\ Hits(exc, FALSE)
          /\ terr' = [terr EXCEPT ![t] = exc]
          /\ IF exc = "none"
             THEN /\ aconn' = [aconn EXCEPT ![t] = <<"connect">>]
                  /\ tchunks' = [tchunks EXCEPT ![t] =
                        ReadChunks(ToCsv(proj[t]), blockSize)]
                  /\ tstate' = [tstate EXCEPT ![t] = "copy_enter"]
             ELSE /\ tstate' = [tstate EXCEPT ![t] = TaskEnd(exc)]
                  /\ UNCHANGED <<aconn, tchunks>>
    /\ UNCHANGED <<storeVars, procVars, wrapVars, upload, awaitIdx, tsent,
                   blockSize, logs>>

\* what the store answers to the COPY statement: an empty column list is
\* rejected, and any statement can fail with the connection
CopyEnterOutcomes(frame) == IF frame.cols = <<>> THEN {"fatal"} ELSE {"none", "fatal"}

\* async with cur.copy(...) as copy: the COPY statement is sent
TaskCopyEnter(t) ==
    /\ Runs(t, "copy_enter")
    /\ \E exc \in CopyEnterOutcomes(proj[t]) :
          /\ Hits(exc, proj[t].cols = <<>>)
          /\ terr' = [terr EXCEPT ![t] = exc]
          /\ tstate' = [tstate EXCEPT ![t] =
                IF exc # "none" THEN "rollback"
                ELSE IF tchunks[t] = <<>> THEN "copy_exit" ELSE "write"]
    /\ UNCHANGED <<storeVars, procVars, wrapVars, upload, awaitIdx, aconn, tchunks,
                   tsent,
                   blockSize, logs>>

\* await copy.write(data) for the next chunk of the buffer
TaskWrite(t) ==
    /\ Runs(t, "write")
    /\ \E exc \in {"none", "fatal"} :
          /\ Hits(exc, FALSE)
          /\ terr' = [terr EXCEPT ![t] = exc]
          /\ IF exc = "none"
             THEN /\ tsent' = [tsent EXCEPT ![t] = tsent[t] \o Head(tchunks[t])]
                  /\ tchunks' = [tchunks EXCEPT ![t] = Tail(tchunks[t])]
                  /\ tstate' = [tstate EXCEPT ![t] =
                        IF Tail(tchunks[t]) = <<>> THEN "copy_exit" ELSE "write"]
             ELSE /\ tstate' = [tstate EXCEPT ![t] = "rollback"]
                  /\ UNCHANGED <<tsent, tchunks>>
    /\ UNCHANGED <<storeVars, procVars, wrapVars, upload, awaitIdx, aconn,
                   blockSize, logs>>

\* what the store answers when the copy stream ends
CopyExitOutcomes(t) ==
    IF UniqueViolated(TableNames[t], tables[t], CsvRows(tsent[t]))
    THEN {"unique", "fatal"} ELSE {"none", "fatal"}

\* the exit of "async with cur.copy(...)": the stream is ended and the
\* store's answer read
TaskCopyExit(t) ==
    /\ Runs(t, "copy_exit")
    /\ \E exc \in CopyExitOutcomes(t) :
          /\ Hits(exc, FALSE)
          /\ terr' = [terr EXCEPT ![t] = exc]
          /\ tstate' = [tstate EXCEPT ![t] = IF exc = "none" THEN "commit" ELSE "rollback"]
    /\ UNCHANGED <<storeVars, procVars, wrapVars, upload, awaitIdx, aconn, tchunks,
                   tsent,
                   blockSize, logs>>

\* mutant: the four loads share one connection kept on the loader
ConnOf_Shared(t) == 1

\* line 163: aconn is a local of the call, bound to the connection that the
\* call's own connect() returned; connections are named by the task's number
ConnOf(t) == t

\* the loads whose COPY went through the connection of the load t
SameConn(t) == {u \in Tasks : ConnOf(u) = ConnOf(t)}

\* mutant: the connection is closed without a commit, the rows are lost
Insert_Uncommitted(old, rows) == old

\* a table after the commit of a transaction whose COPY ... FROM STDIN
\* wrote rows into it: COPY appends
Insert(old, rows) == old \o rows

\* mutant: the table is emptied ahead of the COPY, outside the transaction
RolledBack_Truncates(old, rows) == <<>>

\* a table after the rollback of a transaction that wrote rows into it
RolledBack(old, rows) == old

\* the tables once the transaction of the connection of load t has ended
AfterTransaction(t, committed) ==
    [u \in Tasks |->
        IF u \notin SameConn(t) THEN tables[u]
        ELSE IF committed THEN Insert(tables[u], CsvRows(tsent[u]))
        ELSE RolledBack(tables[u], CsvRows(tsent[u]))]

\* the copy streams once the transaction of the connection of load t has
\* ended: what was written in it is no longer pending
StreamsAfter(t) == [u \in Tasks |-> IF u \in SameConn(t) THEN "" ELSE tsent[u]]

\* the exit of "async with aconn" without an exception: commit, then close;
\* a commit that raises leaves the rows out and the exception is not caught
TaskCommit(t) ==
    /\ Runs(t, "commit")
    /\ aconn' = [aconn EXCEPT ![t] = aconn[t] \o <<"commit", "close">>]
    /\ \E exc \in {"none", "commit"} :
          /\ Hits(exc, FALSE)
          /\ terr' = [terr EXCEPT ![t] = exc]
          /\ tstate' = [tstate EXCEPT ![t] = TaskEnd(exc)]
          /\ tables' = AfterTransaction(t, exc = "none")
    /\ tsent' = StreamsAfter(t)
    /\ UNCHANGED <<source, stgTable, tablesAtStart, procVars, wrapVars, upload, awaitIdx, tchunks,
                   blockSize, logs>>

\* the exit of "async with aconn" with an exception: rollback (its own
\* errors are only logged), close, and the exception reaches the except
\* clause, which logs the one it catches
TaskRollback(t) ==
    /\ \/ Runs(t, "rollback")
       \/ Runs(t, "rollback_cancel")
    /\ aconn' = [aconn EXCEPT ![t] = aconn[t] \o <<"rollback", "close">>]
    /\ tables' = AfterTransaction(t, FALSE)
    /\ tsent' = StreamsAfter(t)
    /\ tstate' = [tstate EXCEPT ![t] =
          IF tstate[t] = "rollback_cancel" THEN "cancelled" ELSE TaskEnd(terr[t])]
    /\ logs' = IF tstate[t] = "rollback" /\ DdsCatches(terr[t])
               THEN Logged(TableNames[t], terr[t]) ELSE logs
    /\ UNCHANGED <<source, stgTable, tablesAtStart, procVars, wrapVars, upload, awaitIdx,
                   terr, tchunks, faults, blockSize>>

\* upload_dds_data resumes once the task it awaits is done
MainResume ==
    /\ pc = "loop"
    /\ upload = "awaiting"
    /\ AllStarted
    /\ tstate[awaitIdx] \in Terminal
    /\ upload' = AwaitFrom(tstate, awaitIdx).upload
    /\ awaitIdx' = AwaitFrom(tstate, awaitIdx).idx
    /\ UNCHANGED <<storeVars, procVars, wrapVars, tstate, terr, aconn, tchunks,
                   tsent, faults,
                   blockSize, logs>>

\* the task t after CancelledError is thrown into it at the await it is
\* suspended in: inside the copy the "async with" exits still have to run,
\* in commit or rollback the exception leaves the exit of "async with aconn"
CancelledState(st) ==
    IF st \in {"copy_enter", "write", "copy_exit"} THEN "rollback_cancel"
    ELSE IF st \in InFlight THEN "cancelled"
    ELSE st

\* the exception in flight in the task after the cancellation
CancelledErr(st, exc) ==
    IF st \in {"connect", "copy_enter", "write", "copy_exit"} THEN "cancelled" ELSE exc

CancelledConn(st, calls) ==
    IF st = "commit" THEN calls \o <<"commit", "close">>
    ELSE IF st \in {"rollback", "rollback_cancel"} THEN calls \o <<"rollback", "close">>
    ELSE calls

\* asyncio.run, once its main coroutine is done, cancels every task that is
\* not (each gets CancelledError before any other callback runs), and runs
\* the loop until they are; a commit that was cancelled may have taken effect
CancelAll ==
    /\ pc = "loop"
    /\ upload \in {"returned", "raised"}
    /\ pc' = "shutdown"
    /\ tstate' = [t \in Tasks |-> CancelledState(tstate[t])]
    /\ aconn' = [t \in Tasks |-> CancelledConn(tstate[t], aconn[t])]
    /\ terr' = [t \in Tasks |-> CancelledErr(tstate[t], terr[t])]
    /\ \E done \in SUBSET {t \in Tasks : tstate[t] = "commit"} :
          tables' = [t \in Tasks |->
                        IF t \in done THEN Insert(tables[t], CsvRows(tsent[t]))
                        ELSE IF tstate[t] \in {"commit", "rollback"}
                        THEN RolledBack(tables[t], CsvRows(tsent[t]))
                        ELSE tables[t]]
    /\ tsent' = [t \in Tasks |-> IF tstate[t] \in {"commit", "rollback"} THEN "" ELSE tsent[t]]
    /\ UNCHANGED <<source, stgTable, tablesAtStart, proc, exitStatus, raisedAt, data, df, proj,
                   wrapVars, upload, awaitIdx, tchunks, faults,
                   blockSize, logs>>

\* the loop is closed and asyncio.run returns, or raises what upload_dds_data
\* raised, which ends the process
ExitLoop ==
    /\ pc = "shutdown"
    /\ \A t \in Tasks : tstate[t] \in Terminal
    /\ IF upload = "raised" THEN Raise("upload") ELSE Continue("upload")
    /\ UNCHANGED <<storeVars, proc, data, df, proj, wrapVars, taskVars,
                   logs>>

Next ==
    \/ StartStg
    \/ StgDownloadData
    \/ StgTransformStep
    \/ WConnect
    \/ WCallDownload
    \/ WCallUpload
    \/ WRollback
    \/ WCommit
    \/ WClose
    \/ StartDds
    \/ DdsTransformStep
    \/ DdsAddHashes
    \/ DdsSplit
    \/ DdsRun
    \/ \E t \in Tasks : TaskStart(t)
    \/ \E t \in Tasks : TaskConnect(t)
    \/ \E t \in Tasks : TaskCopyEnter(t)
    \/ \E t \in Tasks : TaskWrite(t)
    \/ \E t \in Tasks : TaskCopyExit(t)
    \/ \E t \in Tasks : TaskCommit(t)
    \/ \E t \in Tasks : TaskRollback(t)
    \/ MainResume
    \/ CancelAll
    \/ ExitLoop

Spec == Init /\ [][Next]_vars

\* a block size below the length of one serialized row of the widest projection
SmallBlockSize == 40

\* values of the block_size parameter of copy_df and of upload_dds_table
BlockSizes == {0, SmallBlockSize, DefaultBlockSize}

\* the program with its loads called with any of the block sizes
NextCopy ==
    \/ \E b \in BlockSizes : StartStgWith(b)
    \/ StgDownloadData
    \/ StgTransformStep
    \/ WConnect
    \/ WCallDownload
    \/ WCallUpload
    \/ WRollback
    \/ WCommit
    \/ WClose
    \/ \E b \in BlockSizes : StartDdsWith(b)
    \/ DdsTransformStep
    \/ DdsAddHashes
    \/ DdsSplit
    \/ DdsRun
    \/ \E t \in Tasks : TaskStart(t)
    \/ \E t \in Tasks : TaskConnect(t)
    \/ \E t \in Tasks : TaskCopyEnter(t)
    \/ \E t \in Tasks : TaskWrite(t)
    \/ \E t \in Tasks : TaskCopyExit(t)
    \/ \E t \in Tasks : TaskCommit(t)
    \/ \E t \in Tasks : TaskRollback(t)
    \/ MainResume
    \/ CancelAll
    \/ ExitLoop

SpecCopy == Init /\ [][NextCopy]_vars

\* main_dds.py run again and again over the grown staging table
NextGrow ==
    \/ StartDds
    \/ WConnect
    \/ WCallDownload
    \/ WRollback
    \/ WCommit
    \/ WClose
    \/ DdsTransformStep
    \/ DdsAddHashes
    \/ DdsSplit
    \/ DdsRun
    \/ \E t \in Tasks : TaskStart(t)
    \/ \E t \in Tasks : TaskConnect(t)
    \/ \E t \in Tasks : TaskCopyEnter(t)
    \/ \E t \in Tasks : TaskWrite(t)
    \/ \E t \in Tasks : TaskCopyExit(t)
    \/ \E t \in Tasks : TaskCommit(t)
    \/ \E t \in Tasks : TaskRollback(t)
    \/ MainResume
    \/ CancelAll
    \/ ExitLoop

SpecGrow == InitGrow /\ [][NextGrow]_vars

NextProj ==
    \/ StartDds
    \/ WConnect
    \/ WCallDownload
    \/ WRollback
    \/ WCommit
    \/ WClose
    \/ DdsTransformStep
    \/ DdsAddHashes
    \/ DdsSplit

SpecProj == InitProj /\ [][NextProj]_vars

(***************************************************************************)
(* Properties.                                                              *)
(***************************************************************************)
Calls(log) == {log[i] : i \in DOMAIN log}
LoadEnded == proc = "dds" /\ pc = "exit" /\ upload # "none"

\* C1: once one of the four table loads has raised a fatal error, none of
\* the other loads is cancelled: each runs until it has itself returned or
\* raised.
C1_NoLoadCancelled ==
    (\E u \in Tasks : tstate[u] = "raised")
        => \A t \in Tasks : tstate[t] \notin {"cancelled", "rollback_cancel"}

\* C2: upload_dds_data has returned or raised only in states where all four
\* upload_dds_table tasks have terminated.
C2_FinishesAfterAllLoads ==
    upload \in {"returned", "raised"} => \A t \in Tasks : tstate[t] \in Terminal

\* C3: a uniqueness violation in a table load is caught inside its task: as
\* long as no load of the run met another failure, every load that hit a
\* uniqueness violation returned normally, and the run ends with all four
\* tasks returned and exit status 0, a second load of the same batch included.
C3_UniqueViolationNotFatal ==
    (\A u \in Tasks : terr[u] \notin Fatal)
        => /\ \A t \in Tasks :
                 terr[t] = "unique" /\ tstate[t] \in Terminal => tstate[t] = "returned"
           /\ upload # "raised"
           /\ LoadEnded => exitStatus = 0 /\ \A t \in Tasks : tstate[t] = "returned"

\* C3 witness: a run over tables that already hold the batch has ended with
\* status 0 after a load hit the uniqueness violation while another load
\* inserted its rows.
C3_Witness ==
    /\ LoadEnded
    /\ exitStatus = 0
    /\ \E t \in Tasks : terr[t] = "unique" /\ tablesAtStart[t] # <<>>
    /\ \E t \in Tasks : terr[t] = "none" /\ tables[t] # tablesAtStart[t]

\* C4: a failure of a table load other than a uniqueness violation is never
\* swallowed, its task does not return normally, and a run in which a load
\* ended with such a failure ends with exit status 1, whichever table it was.
C4_FatalPropagates ==
    /\ \A t \in Tasks : terr[t] \in Fatal /\ tstate[t] \in Terminal => tstate[t] # "returned"
    /\ (\E t \in Tasks : terr[t] \in Fatal /\ tstate[t] = "raised") => upload # "returned"
    /\ LoadEnded /\ (\E t \in Tasks : terr[t] \in Fatal) => exitStatus = 1

\* C4 witness: the run ended with status 1 although only the load awaited
\* last failed, the other three having returned.
C4_Witness ==
    /\ LoadEnded
    /\ exitStatus = 1
    /\ terr[4] = "fatal" /\ tstate[4] = "raised"
    /\ \A t \in 1..3 : tstate[t] = "returned"

C5_RollbackRaised ==
    proc = "stg" /\ pc = "exit" /\ wexc = "rollback" => wconn = <<"connect", "rollback", "close">>

\* the calls made on a scoped connection are in order: commit and rollback
\* never both, and nothing after close
OneOutcome(log) ==
    /\ ~({"commit", "rollback"} \subseteq Calls(log))
    /\ \A i \in DOMAIN log : log[i] = "close" => i = Len(log)

\* the wrapper has decided between commit and rollback
WDecided == wconn # <<>> /\ wpc \in {"close", "idle"}

\* C6 as stated: a scoped connection is committed exactly when no exception
\* occurred in the operation (a caught one included), rolled back whenever
\* one occurred, never both and never after close.
C6_Original ==
    /\ OneOutcome(wconn)
    /\ WDecided =>
          /\ "commit" \in Calls(wconn) <=> (wexc \notin {"call", "rollback"} /\ wcaught = "none")
          /\ "rollback" \in Calls(wconn) <=> (wexc \in {"call", "rollback"} \/ wcaught # "none")

\* C6 amended: a scoped connection is committed exactly when the operation
\* came back to its scope without an exception (which it also does when
\* upload_df_to_db caught a UniqueViolation inside), rolled back exactly when
\* an exception or a cancellation left the operation, never both and never
\* after close.
C6_CommitOrRollback ==
    /\ OneOutcome(wconn)
    /\ WDecided =>
          /\ "commit" \in Calls(wconn) <=> wexc \notin {"call", "rollback"}
          /\ "rollback" \in Calls(wconn) <=> wexc \in {"call", "rollback"}
    /\ \A t \in Tasks :
          /\ OneOutcome(aconn[t])
          /\ tstate[t] \in Terminal /\ aconn[t] # <<>> =>
                /\ "commit" \in Calls(aconn[t]) <=> terr[t] \in {"none", "commit"}
                /\ "rollback" \in Calls(aconn[t]) <=> terr[t] \in {"unique", "fatal", "cancelled"}

\* C6 witness: upload_df_to_db caught the UniqueViolation of a second
\* staging load, the wrapper committed and closed, and the script ended.
C6_Witness ==
    /\ proc = "stg" /\ pc = "exit"
    /\ wcaught = "unique"
    /\ wconn = <<"connect", "commit", "close">>

\* C7: when the staging read or the key derivation raises, the run ends
\* there: no upload_dds_table task was created, no connection opened for a
\* load, and the four target tables are as they were.
C7_AbortBeforeLoad ==
    (proc = "dds" /\ raisedAt \in {"download_stg_data", "transform", "add_hashes", "split"})
        => /\ pc = "exit" /\ exitStatus = 1
           /\ upload = "none"
           /\ \A t \in Tasks : tstate[t] = "none" /\ aconn[t] = <<>>
           /\ tables = tablesAtStart

\* C7 witness: key derivation raised after the staging read had succeeded.
C7_Witness ==
    /\ proc = "dds" /\ raisedAt = "add_hashes"
    /\ wconn = <<"connect", "commit", "close">>

\* C7 second case (kept with the witness): the staging read raised in a run
\* over target tables that hold rows, and they are as they were.
C7_ReadRaised ==
    /\ proc = "dds" /\ raisedAt = "download_stg_data"
    /\ \E t \in Tasks : tables[t] # <<>>

\* the phase of the batch main_dds.py is in
Phase ==
    IF proc # "dds" THEN "None"
    ELSE CASE pc = "download_stg_data" -> "Started"
           [] pc \in {"transform", "add_hashes"} -> "Fetched"
           [] pc = "split" -> "Enriched"
           [] pc = "upload" -> "Projected"
           [] pc \in {"loop", "shutdown"} -> "Loading"
           [] pc = "exit" -> IF raisedAt \in {"none", "upload"} THEN "Done" ELSE "Aborted"

PhaseRank(ph) ==
    CASE ph = "Started" -> 0
      [] ph = "Fetched" -> 1
      [] ph = "Enriched" -> 2
      [] ph = "Projected" -> 3
      [] ph = "Loading" -> 4
      [] ph = "Done" -> 5
      [] OTHER -> 0 - 1

\* what each phase has produced
PhaseHolds ==
    /\ Phase \in {"Enriched", "Projected", "Loading", "Done"}
          => HasCol(df, "user_id_hash") /\ HasCol(df, "letter_id_hash")
    /\ Phase \in {"Projected", "Loading", "Done"} => proj = SplitDfToTables(df)
    /\ (\E t \in Tasks : tstate[t] # "none") <=> Phase \in {"Loading", "Done"}

\* C8: a batch goes through Fetched, Enriched, Projected, Loading, Done in
\* that order, one phase at a time (or aborts), and no load is issued before
\* split_df_to_tables has produced the four projections.
C8_PhaseOrder ==
    /\ [](PhaseHolds)
    /\ [][(Phase' # Phase /\ Phase' \notin {"Started", "None"})
             => \/ PhaseRank(Phase') = PhaseRank(Phase) + 1
                \/ Phase' = "Aborted" /\ Phase \in {"Started", "Fetched", "Enriched"}]_vars

\* C8 witness: the load awaited last has ended while the one awaited first
\* is still in flight: the loads complete in any order.
C8_Witness ==
    /\ Phase = "Loading"
    /\ tstate[4] = "returned" /\ tstate[1] \in InFlight
    /\ tstate[2] \in InFlight

\* C9: when the staging read returns no record, key derivation and
\* projection succeed and the four loads complete: the run ends with exit
\* status 0.
C9_EmptyBatchLoads ==
    (proc = "dds" /\ pc = "exit" /\ wconn = <<"connect", "commit", "close">> /\ wexc = "none"
        /\ data = <<>>)
        => exitStatus = 0 /\ \A t \in Tasks : tstate[t] = "returned"

\* the user_id values of the batch
UserIdsOf(rows) == {rows[i]["user_id"] : i \in DOMAIN rows}

\* C10: the HubUsers projection has exactly one row per distinct user_id of
\* the input, and so as many rows as there are distinct user_id values.
C10_HubUsersDistinct ==
    pc = "upload" =>
        /\ Len(proj[1].rows) = Cardinality(UserIdsOf(data))
        /\ \A u \in UserIdsOf(data) :
              Cardinality({i \in DOMAIN proj[1].rows : proj[1].rows[i]["user_id"] = u}) = 1

\* C10 witness: a batch of two records of one user gave one HubUsers row.
C10_Witness ==
    /\ pc = "upload"
    /\ Len(data) = 2
    /\ Len(proj[1].rows) = 1

\* C11: the HubLetters, SatelliteLetters and LinkPosts projections that
\* split_df_to_tables returns have one row per input record, the i-th row
\* made of the i-th record's cells, and repeated item ids or (user, item)
\* pairs are not deduplicated.
C11_RowPerRecord ==
    pc = "upload" =>
        /\ Len(df.rows) = Len(data)
        /\ \A t \in {2, 3, 4} : Len(proj[t].rows) = Len(data)
        /\ \A i \in DOMAIN data :
              /\ proj[2].rows[i]["letter_id"] = data[i]["id"]
              /\ proj[2].rows[i]["letter_id_hash"] = df.rows[i]["letter_id_hash"]
              /\ proj[3].rows[i]["letter_id_hash"] = df.rows[i]["letter_id_hash"]
              /\ proj[3].rows[i]["title"] = data[i]["title"]
              /\ proj[3].rows[i]["body"] = data[i]["body"]
              /\ proj[4].rows[i]["user_id_hash"] = df.rows[i]["user_id_hash"]
              /\ proj[4].rows[i]["letter_id_hash"] = df.rows[i]["letter_id_hash"]

\* C11 witness: a batch that holds the same record twice was projected: the
\* users hub has one row, the other three projections two equal rows.
C11_Witness ==
    /\ pc = "upload"
    /\ Len(data) = 2 /\ data[1] = data[2]
    /\ Len(proj[1].rows) = 1
    /\ \A t \in {2, 3, 4} : Len(proj[t].rows) = 2 /\ proj[t].rows[1] = proj[t].rows[2]

\* the rows of projection t whose column c holds v
RowsWith(t, c, v) == {j \in DOMAIN proj[t].rows : proj[t].rows[j][c] = v}

\* C12: every record of the enriched batch carries user_id_hash =
\* md5(str(user_id)), the HubUsers projection holds a row of that user_id
\* with the same hash, and every user_id_hash and letter_id_hash of a
\* LinkPosts row is the hash of a HubUsers row and of a HubLetters row.
C12_HashesConsistent ==
    pc = "upload" =>
        /\ \A i \in DOMAIN df.rows :
              /\ df.rows[i]["user_id_hash"] = Md5Hex(Str(data[i]["user_id"]))
              /\ df.rows[i]["letter_id_hash"] = Md5Hex(Str(data[i]["id"]))
              /\ \E j \in RowsWith(1, "user_id", data[i]["user_id"]) :
                    proj[1].rows[j]["user_id_hash"] = df.rows[i]["user_id_hash"]
        /\ \A k \in DOMAIN proj[4].rows :
              /\ RowsWith(1, "user_id_hash", proj[4].rows[k]["user_id_hash"]) # {}
              /\ RowsWith(2, "letter_id_hash", proj[4].rows[k]["letter_id_hash"]) # {}

\* C12 witness: two records of different users about one item were
\* projected: two HubUsers rows with different hashes, one item hash.
C12_Witness ==
    /\ pc = "upload"
    /\ Len(data) = 2
    /\ data[1]["user_id"] # data[2]["user_id"] /\ data[1]["id"] = data[2]["id"]
    /\ Len(proj[1].rows) = 2
    /\ proj[1].rows[1]["user_id_hash"] # proj[1].rows[2]["user_id_hash"]
    /\ proj[4].rows[1]["letter_id_hash"] = proj[4].rows[2]["letter_id_hash"]

IsPrefix(a, b) == Len(a) <= Len(b) /\ SubSeq(b, 1, Len(a)) = a

\* the rows the load t is to insert
BatchRows(t) == CsvRows(ToCsv(proj[t]))

\* C14: every table load writes through a connection it opened itself and
\* has not closed, and no commit or rollback touches another load's rows: a
\* target table changes only in a step in which its own load's connection
\* commits, and the rows a load has written stop being pending only in a
\* step in which its own connection commits or rolls back.
C14_OwnConnection ==
    /\ [](\A t \in Tasks : tsent[t] # "" => IsOpen(aconn[t]))
    /\ [][\A u \in Tasks :
             /\ tables'[u] # tables[u] => aconn'[u] = aconn[u] \o <<"commit", "close">>
             /\ (tsent[u] # "" /\ tsent'[u] = "")
                   => \/ aconn'[u] = aconn[u] \o <<"commit", "close">>
                      \/ aconn'[u] = aconn[u] \o <<"rollback", "close">>]_vars

\* C14 witness: in one run a load was rolled back and left its table as it
\* was, another load committed its rows, and a third still has rows pending
\* on its open connection.
C14_Witness ==
    \E t, u, v \in Tasks :
        /\ tstate[t] = "returned" /\ "rollback" \in Calls(aconn[t])
        /\ tables[t] = tablesAtStart[t]
        /\ tstate[u] = "returned" /\ "commit" \in Calls(aconn[u])
        /\ tables[u] = tablesAtStart[u] \o BatchRows(u)
        /\ tsent[v] # "" /\ IsOpen(aconn[v])

\* C15: a table load only inserts: the rows a target table held when the
\* run started stay where they were, unchanged, in every later state, each
\* step leaves every table's rows in place, and a step of the load of one
\* table leaves the other three tables as they are.
C15_OnlyInserts ==
    /\ [](\A t \in Tasks : IsPrefix(tablesAtStart[t], tables[t]))
    /\ [][\A t \in Tasks :
             /\ IsPrefix(tables[t], tables'[t])
             /\ (pc' = pc /\ tstate'[t] # tstate[t])
                   => \A u \in Tasks \ {t} : tables'[u] = tables[u]]_vars

\* C15 witness: a run has ended in which a table that held rows was loaded
\* again and rejected, and a table that was empty took the batch.
C15_Witness ==
    /\ LoadEnded
    /\ \E t \in Tasks :
          tablesAtStart[t] # <<>> /\ "rollback" \in Calls(aconn[t]) /\ tables[t] = tablesAtStart[t]
    /\ \E u \in Tasks :
          tablesAtStart[u] = <<>> /\ Len(tables[u]) = Len(proj[u].rows) /\ Len(tables[u]) > 1

\* C16: every log record written for a caught uniqueness violation, by
\* upload_dds_table or by upload_df_to_db, has level WARNING.
C16_DuplicateLoggedAsWarning ==
    \A r \in logs : r.level = "WARNING"

\* C17: whatever the block_size, the chunks written to the copy stream, put
\* together in order, are the whole serialized frame: when the loop of
\* upload_dds_table is over the stream holds the buffer, and the rows
\* copy_df has written are the rows of the frame.
C17_ChunksMakeBuffer ==
    /\ \A t \in Tasks : tstate[t] \in {"copy_exit", "commit"} => tsent[t] = ToCsv(proj[t])
    /\ (proc = "stg" /\ wpc = "commit" /\ wcaught = "none")
          => wpending = CsvRows(ToCsv(df))

\* C18: a table load is all-or-nothing: at every moment a target table holds
\* its previous rows, or these followed by every row of the projection; once
\* the load has returned without an exception it holds them all, and once it
\* has ended on a uniqueness violation or on a failure it holds exactly its
\* previous rows, also when only some rows of the batch were in conflict.
C18_AllOrNothing ==
    \A t \in Tasks :
        /\ \/ tables[t] = tablesAtStart[t]
           \/ tables[t] = tablesAtStart[t] \o BatchRows(t)
        /\ (tstate[t] = "returned" /\ terr[t] = "none")
              => tables[t] = tablesAtStart[t] \o BatchRows(t)
        /\ (tstate[t] \in Terminal /\ terr[t] \in {"unique", "fatal", "commit"})
              => tables[t] = tablesAtStart[t]

\* C18 witness: the load of a table that held the first record's row ended
\* on the uniqueness violation of a batch of two rows, one of them new, and
\* the table holds the one row it held.
C18_Witness ==
    \E t \in Tasks :
        /\ tstate[t] = "returned" /\ terr[t] = "unique"
        /\ Len(BatchRows(t)) = 2
        /\ Len(tablesAtStart[t]) = 1
        /\ \E i \in 1..2 : \A j \in DOMAIN tablesAtStart[t] :
               UniqueKey(TableNames[t], BatchRows(t)[i]) # UniqueKey(TableNames[t], tablesAtStart[t][j])
        /\ tables[t] = tablesAtStart[t]

\* C19: in the staging load a UniqueViolation of copy_df never reaches the
\* wrapper: once upload_df_to_db has caught it the wrapper commits and does
\* not roll back, then closes, and unless the commit itself raises the
\* script ends with status 0; a staging load over rows already staged that
\* met no other error is therefore never rolled back.
C19_StagingConflictCommits ==
    /\ wexc # "call_unique"
    /\ (proc = "stg" /\ wcaught = "unique") =>
          /\ wpc # "rollback" /\ "rollback" \notin Calls(wconn)
          /\ wpending = <<>>
          /\ WDecided => "commit" \in Calls(wconn)
          /\ pc = "exit" =>
                /\ wconn = <<"connect", "commit", "close">>
                /\ wexc = "none" => exitStatus = 0 /\ raisedAt = "none"

\* C19 witness: a second staging load of the staged records ended with
\* status 0, the violation logged, the connection committed and closed, and
\* the staging table as the first load left it.
C19_Witness ==
    /\ proc = "stg" /\ pc = "exit" /\ exitStatus = 0
    /\ wcaught = "unique" /\ logs # {}
    /\ wconn = <<"connect", "commit", "close">>
    /\ stgTable = StagedRows(source) /\ stgTable # <<>>

====
